---- MODULE Spec2Model ----
(***************************************************************************)
(* Model of the QRScanner React component                                  *)
(* (src/src/components/QRScanner.tsx).                                     *)
(*                                                                         *)
(* One session = one mount of the component.  The state is the component's *)
(* React state (status, statusMessage, result, isScanning), its refs       *)
(* (videoRef, animationFrameRef), the platform objects it owns (the camera *)
(* stream, the frame requests handed to requestAnimationFrame) and the     *)
(* getUserMedia promise.  A frame request remembers the closure that was   *)
(* passed to requestAnimationFrame: scanQRCode is a useCallback closure    *)
(* over the isScanning and status of the render that created it.           *)
(*                                                                         *)
(* State updates issued by one handler are batched and applied before the  *)
(* next handler runs; the re-render they cause, and the re-run of the scan *)
(* effect when its dependencies changed, is the separate step ScanEffect,  *)
(* because React flushes passive effects in a task of its own and a frame  *)
(* callback of the old closure may fire before it.                         *)
(***************************************************************************)
EXTENDS Integers, Sequences, FiniteSets, TLC

\* ------------------------------------------------------------------ bounds
\* Frame-request ids handed out by requestAnimationFrame are 1..MaxFrames.
MaxFrames == 5
\* Number of distinct non-empty payloads the decoder can report.
NumPayloads == 2

PayloadNames == <<"A", "B", "C", "D">>
\* Texts jsQR can report in code.data; the empty text is one of them.
Payloads == {""} \cup {PayloadNames[i] : i \in 1..NumPayloads}

\* ------------------------------------------------------------ type ScannerStatus
ScannerStatus == {"initializing", "scanning", "detected", "error", "no-camera"}

\* Return values of jsQR(...): null, or an object with a data field.
NoCode == [found |-> FALSE, data |-> ""]
DecodeResults == {NoCode} \cup {[found |-> TRUE, data |-> p] : p \in Payloads}

\* toast({title, description, variant}); payload is the text interpolated
\* into the description ("" when the description is fixed).
Toast(title, payload) == [title |-> title, payload |-> payload]
CameraErrorToast == Toast("Camera Error", "")
FoundToast == Toast("QR Code Found!", "")
NoResultToast == Toast("No Result", "")
SubmittedToast(r) == Toast("Result Submitted", r)

VARIABLES
  mounted,            \* the component is mounted
  videoRef,           \* videoRef.current is non-null (same for canvasRef)
  acq,                \* getUserMedia promise: "pending", "resolved", "rejected"
  track,              \* tracks of the stream obtained: "none", "live", "stopped"
  srcObject,          \* the stream is attached to the video element
  status,             \* useState status
  statusMessage,      \* useState statusMessage
  result,             \* useState result
  isScanning,         \* useState isScanning
  animationFrameRef,  \* animationFrameRef.current (0 = undefined)
  rafPending,         \* outstanding frame requests, each with its closure
  nextFrameId,        \* id the next requestAnimationFrame call returns
  depIsScanning,      \* isScanning seen by the last run of the scan effect
  depStatus,          \* status seen by the last run of the scan effect
  \* outputs of the last step
  lastOp,             \* the handler that ran
  toasts,             \* toasts it raised
  decoded,            \* values jsQR returned to it (at most one)
  consoleLog,         \* texts it wrote with console.log
  alerts,             \* texts it showed with alert
  closureStatus,      \* status captured by the scanQRCode closure it called
  frameReady,         \* "yes"/"no": the scanQRCode call it made found a 2D
                      \* context and enough video data; "none": no call
  \* history
  everHit,            \* some decode has returned a non-null result
  everNonEmpty,       \* some decode has returned a non-empty payload
  everDetected,       \* status has been "detected"
  lastData            \* payload of the latest decode that returned a result

state == <<mounted, videoRef, acq, track, srcObject, status, statusMessage,
           result, isScanning, animationFrameRef, rafPending, nextFrameId,
           depIsScanning, depStatus>>
outputs == <<lastOp, toasts, decoded, consoleLog, alerts,
            closureStatus, frameReady>>
history == <<everHit, everNonEmpty, everDetected, lastData>>
vars == <<state, outputs, history>>

\* State after the first render and its effects: startCamera() has been
\* called (promise pending), the scan effect ran with isScanning = false.
Init ==
  /\ mounted = TRUE
  /\ videoRef = TRUE
  /\ acq = "pending"
  /\ track = "none"
  /\ srcObject = FALSE
  /\ status = "initializing"
  /\ statusMessage = "Initializing camera..."
  /\ result = ""
  /\ isScanning = FALSE
  /\ animationFrameRef = 0
  /\ rafPending = {}
  /\ nextFrameId = 1
  /\ depIsScanning = FALSE
  /\ depStatus = "initializing"
  /\ lastOp = "mount"
  /\ toasts = <<>>
  /\ decoded = <<>>
  /\ consoleLog = <<>>
  /\ alerts = <<>>
  /\ closureStatus = "none"
  /\ frameReady = "none"
  /\ everHit = FALSE
  /\ everNonEmpty = FALSE
  /\ everDetected = FALSE
  /\ lastData = ""

\* ------------------------------------------------------------- helpers
\* updateStatus(newStatus, message): setStatus + setStatusMessage.
updateStatus(newStatus, message) ==
  [status |-> newStatus, statusMessage |-> message]

\* The status update of startCamera's try branch.
onCameraStarted == updateStatus("scanning", "Scanning for QR code...")

\* Variant: the catch branch reports the reserved status.
onCameraError_error ==
  updateStatus("error", "Camera access denied or not available")

\* The status update of startCamera's catch branch.
onCameraError ==
  updateStatus("no-camera", "Camera access denied or not available")

\* What a handler that issues no setState leaves behind.
NoUpdate == [status |-> status, statusMessage |-> statusMessage]

\* cancelAnimationFrame(id) on the set of outstanding requests.
cancelAnimationFrame(id, pending) == {r \in pending : r.id # id}

\* Variant: the scan effect has no cleanup.
EffectCleanup_none(pending) == pending

\* Cleanup of the scan effect: cancel animationFrameRef.current if set.
EffectCleanup(pending) ==
  IF animationFrameRef # 0
    THEN cancelAnimationFrame(animationFrameRef, pending)
    ELSE pending

\* Frame-request part of the mount effect's cleanup.
UnmountCancel(pending) ==
  IF animationFrameRef # 0
    THEN cancelAnimationFrame(animationFrameRef, pending)
    ELSE pending

\* Stream part of the mount effect's cleanup; refAtCleanup tells whether
\* videoRef.current is still the element when the cleanup runs.
UnmountStopTracks(refAtCleanup) ==
  IF refAtCleanup /\ srcObject /\ track = "live" THEN "stopped" ELSE track

\* Variant: the miss branch reports the reserved status instead of scanning.
decodeOutcome_missToError(code, cStatus) ==
  IF code.found
    THEN [result |-> code.data, toasts |-> <<FoundToast>>]
           @@ updateStatus("detected", "QR code detected and decoded!")
    ELSE IF cStatus # "scanning"
      THEN [result |-> result, toasts |-> <<>>]
             @@ updateStatus("error", "Scanning for QR code...")
      ELSE [result |-> result, toasts |-> <<>>] @@ NoUpdate

\* Variant: the test on the decoder's return value is inverted.
decodeOutcome_inverted(code, cStatus) ==
  IF ~code.found
    THEN [result |-> code.data, toasts |-> <<FoundToast>>]
           @@ updateStatus("detected", "QR code detected and decoded!")
    ELSE IF cStatus # "scanning"
      THEN [result |-> result, toasts |-> <<>>]
             @@ updateStatus("scanning", "Scanning for QR code...")
      ELSE [result |-> result, toasts |-> <<>>] @@ NoUpdate

\* Variant: the hit branch forgets setResult.
decodeOutcome_noSetResult(code, cStatus) ==
  IF code.found
    THEN [result |-> result, toasts |-> <<FoundToast>>]
           @@ updateStatus("detected", "QR code detected and decoded!")
    ELSE IF cStatus # "scanning"
      THEN [result |-> result, toasts |-> <<>>]
             @@ updateStatus("scanning", "Scanning for QR code...")
      ELSE [result |-> result, toasts |-> <<>>] @@ NoUpdate

\* Variant: the hit branch stores the payload only while result is empty.
decodeOutcome_firstWins(code, cStatus) ==
  IF code.found
    THEN [result |-> IF result = "" THEN code.data ELSE result,
          toasts |-> <<FoundToast>>]
           @@ updateStatus("detected", "QR code detected and decoded!")
    ELSE IF cStatus # "scanning"
      THEN [result |-> result, toasts |-> <<>>]
             @@ updateStatus("scanning", "Scanning for QR code...")
      ELSE [result |-> result, toasts |-> <<>>] @@ NoUpdate

\* Variant: a miss clears the stored result.
decodeOutcome_missClears(code, cStatus) ==
  IF code.found
    THEN [result |-> code.data, toasts |-> <<FoundToast>>]
           @@ updateStatus("detected", "QR code detected and decoded!")
    ELSE IF cStatus # "scanning"
      THEN [result |-> "", toasts |-> <<>>]
             @@ updateStatus("scanning", "Scanning for QR code...")
      ELSE [result |-> "", toasts |-> <<>>] @@ NoUpdate

\* Variant: the detection branch also requires a non-empty payload
\* (if (code && code.data)).
decodeOutcome_requiresData(code, cStatus) ==
  IF code.found /\ code.data # ""
    THEN [result |-> code.data, toasts |-> <<FoundToast>>]
           @@ updateStatus("detected", "QR code detected and decoded!")
    ELSE IF cStatus # "scanning"
      THEN [result |-> result, toasts |-> <<>>]
             @@ updateStatus("scanning", "Scanning for QR code...")
      ELSE [result |-> result, toasts |-> <<>>] @@ NoUpdate

\* The if (code) ... else ... of scanQRCode, run by a closure that captured
\* status cStatus.
decodeOutcome(code, cStatus) ==
  IF code.found
    THEN [result |-> code.data, toasts |-> <<FoundToast>>]
           @@ updateStatus("detected", "QR code detected and decoded!")
    ELSE IF cStatus # "scanning"
      THEN [result |-> result, toasts |-> <<>>]
             @@ updateStatus("scanning", "Scanning for QR code...")
      ELSE [result |-> result, toasts |-> <<>>] @@ NoUpdate

\* Variant: the closure requests the next frame only after a miss.
scanQRCode_stopOnDetect(cIsScanning, cStatus, ctxOk, enough, code) ==
  LET closure == [isScanning |-> cIsScanning, status |-> cStatus] IN
  IF ~videoRef \/ ~cIsScanning
    THEN [request |-> FALSE, decoded |-> <<>>, closure |-> closure,
          result |-> result, toasts |-> <<>>] @@ NoUpdate
    ELSE IF ~ctxOk \/ ~enough
      THEN [request |-> TRUE, decoded |-> <<>>, closure |-> closure,
            result |-> result, toasts |-> <<>>] @@ NoUpdate
      ELSE [request |-> ~code.found, decoded |-> <<code>>, closure |-> closure]
             @@ decodeOutcome(code, cStatus)

\* Variant: a tick that finds the video not ready returns without
\* requesting the next frame.
scanQRCode_noRescheduleOnSkip(cIsScanning, cStatus, ctxOk, enough, code) ==
  LET closure == [isScanning |-> cIsScanning, status |-> cStatus] IN
  IF ~videoRef \/ ~cIsScanning
    THEN [request |-> FALSE, decoded |-> <<>>, closure |-> closure,
          result |-> result, toasts |-> <<>>] @@ NoUpdate
    ELSE IF ~ctxOk \/ ~enough
      THEN [request |-> FALSE, decoded |-> <<>>, closure |-> closure,
            result |-> result, toasts |-> <<>>] @@ NoUpdate
      ELSE [request |-> TRUE, decoded |-> <<code>>, closure |-> closure]
             @@ decodeOutcome(code, cStatus)

\* Variant: the readiness guard is missing, every tick decodes.
scanQRCode_ignoresReadiness(cIsScanning, cStatus, ctxOk, enough, code) ==
  LET closure == [isScanning |-> cIsScanning, status |-> cStatus] IN
  IF ~videoRef \/ ~cIsScanning
    THEN [request |-> FALSE, decoded |-> <<>>, closure |-> closure,
          result |-> result, toasts |-> <<>>] @@ NoUpdate
    ELSE [request |-> TRUE, decoded |-> <<code>>, closure |-> closure]
           @@ decodeOutcome(code, cStatus)

\* One call of the scanQRCode closure that captured (cIsScanning, cStatus).
\* ctxOk: getContext('2d') is non-null; enough: video.readyState is
\* HAVE_ENOUGH_DATA; code: what jsQR returns for the frame.
\* request: the call ends in requestAnimationFrame(scanQRCode).
scanQRCode(cIsScanning, cStatus, ctxOk, enough, code) ==
  LET closure == [isScanning |-> cIsScanning, status |-> cStatus] IN
  IF ~videoRef \/ ~cIsScanning
    THEN [request |-> FALSE, decoded |-> <<>>, closure |-> closure,
          result |-> result, toasts |-> <<>>] @@ NoUpdate
    ELSE IF ~ctxOk \/ ~enough
      THEN [request |-> TRUE, decoded |-> <<>>, closure |-> closure,
            result |-> result, toasts |-> <<>>] @@ NoUpdate
      ELSE [request |-> TRUE, decoded |-> <<code>>, closure |-> closure]
             @@ decodeOutcome(code, cStatus)

\* The effects of one scanQRCode call on the component, given the frame
\* requests outstanding when it starts.
ScanStep(eff, pending) ==
  /\ eff.request => nextFrameId <= MaxFrames
  /\ status' = eff.status
  /\ statusMessage' = eff.statusMessage
  /\ result' = eff.result
  /\ toasts' = eff.toasts
  /\ decoded' = eff.decoded
  /\ closureStatus' = eff.closure.status
  /\ IF eff.request
       THEN /\ animationFrameRef' = nextFrameId
            /\ rafPending' = pending \cup
                 {[id |-> nextFrameId, isScanning |-> eff.closure.isScanning,
                   status |-> eff.closure.status]}
            /\ nextFrameId' = nextFrameId + 1
       ELSE /\ rafPending' = pending
            /\ UNCHANGED <<animationFrameRef, nextFrameId>>
  /\ everHit' = (everHit \/ \E i \in 1..Len(eff.decoded) : eff.decoded[i].found)
  /\ everNonEmpty' =
       (everNonEmpty \/ \E i \in 1..Len(eff.decoded) : eff.decoded[i].data # "")
  /\ everDetected' = (everDetected \/ eff.status = "detected")
  /\ lastData' = IF Len(eff.decoded) = 1 /\ eff.decoded[1].found
                   THEN eff.decoded[1].data
                   ELSE lastData
  /\ consoleLog' = <<>>
  /\ alerts' = <<>>
  /\ UNCHANGED <<mounted, videoRef, acq, track, srcObject, isScanning>>

\* ------------------------------------------------------------- actions
\* Variant: the try branch forgets setIsScanning(true).
StartCameraResolve_noFlag ==
  /\ acq = "pending"
  /\ acq' = "resolved"
  /\ track' = "live"
  /\ IF videoRef
       THEN /\ srcObject' = TRUE
            /\ isScanning' = isScanning
            /\ status' = onCameraStarted.status
            /\ statusMessage' = onCameraStarted.statusMessage
       ELSE UNCHANGED <<srcObject, isScanning, status, statusMessage>>
  /\ lastOp' = "resolve"
  /\ toasts' = <<>>
  /\ decoded' = <<>>
  /\ consoleLog' = <<>>
  /\ alerts' = <<>>
  /\ closureStatus' = "none"
  /\ frameReady' = "none"
  /\ UNCHANGED <<mounted, videoRef, result, animationFrameRef, rafPending,
                 nextFrameId, depIsScanning, depStatus>>
  /\ UNCHANGED history

\* getUserMedia resolves (try branch of startCamera after the await).
StartCameraResolve ==
  /\ acq = "pending"
  /\ acq' = "resolved"
  /\ track' = "live"
  /\ IF videoRef
       THEN /\ srcObject' = TRUE
            /\ isScanning' = TRUE
            /\ status' = onCameraStarted.status
            /\ statusMessage' = onCameraStarted.statusMessage
       ELSE UNCHANGED <<srcObject, isScanning, status, statusMessage>>
  /\ lastOp' = "resolve"
  /\ toasts' = <<>>
  /\ decoded' = <<>>
  /\ consoleLog' = <<>>
  /\ alerts' = <<>>
  /\ closureStatus' = "none"
  /\ frameReady' = "none"
  /\ UNCHANGED <<mounted, videoRef, result, animationFrameRef, rafPending,
                 nextFrameId, depIsScanning, depStatus>>
  /\ UNCHANGED history

\* getUserMedia rejects, or navigator.mediaDevices is absent (catch branch).
\* setState on an unmounted component is dropped; the toast is global.
StartCameraReject ==
  /\ acq = "pending"
  /\ acq' = "rejected"
  /\ IF mounted
       THEN /\ status' = onCameraError.status
            /\ statusMessage' = onCameraError.statusMessage
       ELSE UNCHANGED <<status, statusMessage>>
  /\ lastOp' = "reject"
  /\ toasts' = <<CameraErrorToast>>
  /\ decoded' = <<>>
  /\ consoleLog' = <<>>
  /\ alerts' = <<>>
  /\ closureStatus' = "none"
  /\ frameReady' = "none"
  /\ UNCHANGED <<mounted, videoRef, track, srcObject, result, isScanning,
                 animationFrameRef, rafPending, nextFrameId, depIsScanning,
                 depStatus>>
  /\ UNCHANGED history

\* The platform fires an outstanding frame request: the closure that was
\* passed to requestAnimationFrame runs.
FrameCallback ==
  \E r \in rafPending, ctxOk \in BOOLEAN, enough \in BOOLEAN,
     code \in DecodeResults :
    /\ ScanStep(scanQRCode(r.isScanning, r.status, ctxOk, enough, code),
                rafPending \ {r})
    /\ frameReady' = IF ctxOk /\ enough THEN "yes" ELSE "no"
    /\ lastOp' = "frame"
    /\ UNCHANGED <<depIsScanning, depStatus>>

\* Variant: the effect runs the scan body whatever isScanning is.
ScanEffect_unguarded ==
  /\ mounted
  /\ <<isScanning, status>> # <<depIsScanning, depStatus>>
  /\ depIsScanning' = isScanning
  /\ depStatus' = status
  /\ lastOp' = "effect"
  /\ IF TRUE
       THEN \E ctxOk \in BOOLEAN, enough \in BOOLEAN, code \in DecodeResults :
              /\ ScanStep(scanQRCode(TRUE, status, ctxOk, enough, code),
                          EffectCleanup(rafPending))
              /\ frameReady' = IF ctxOk /\ enough THEN "yes" ELSE "no"
       ELSE /\ rafPending' = EffectCleanup(rafPending)
            /\ toasts' = <<>>
            /\ decoded' = <<>>
            /\ closureStatus' = "none"
            /\ frameReady' = "none"
            /\ consoleLog' = <<>>
            /\ alerts' = <<>>
            /\ UNCHANGED <<mounted, videoRef, acq, track, srcObject, status,
                           statusMessage, result, isScanning,
                           animationFrameRef, nextFrameId>>
            /\ UNCHANGED history

\* Variant: the effect only cleans up and never calls scanQRCode.
ScanEffect_cleanupOnly ==
  /\ mounted
  /\ <<isScanning, status>> # <<depIsScanning, depStatus>>
  /\ depIsScanning' = isScanning
  /\ depStatus' = status
  /\ lastOp' = "effect"
  /\ IF FALSE
       THEN \E ctxOk \in BOOLEAN, enough \in BOOLEAN, code \in DecodeResults :
              /\ ScanStep(scanQRCode(isScanning, status, ctxOk, enough, code),
                          EffectCleanup(rafPending))
              /\ frameReady' = IF ctxOk /\ enough THEN "yes" ELSE "no"
       ELSE /\ rafPending' = EffectCleanup(rafPending)
            /\ toasts' = <<>>
            /\ decoded' = <<>>
            /\ closureStatus' = "none"
            /\ frameReady' = "none"
            /\ consoleLog' = <<>>
            /\ alerts' = <<>>
            /\ UNCHANGED <<mounted, videoRef, acq, track, srcObject, status,
                           statusMessage, result, isScanning,
                           animationFrameRef, nextFrameId>>
            /\ UNCHANGED history

\* Re-render after isScanning or status changed: scanQRCode is re-created,
\* the scan effect's cleanup runs, then the effect calls the new closure.
ScanEffect ==
  /\ mounted
  /\ <<isScanning, status>> # <<depIsScanning, depStatus>>
  /\ depIsScanning' = isScanning
  /\ depStatus' = status
  /\ lastOp' = "effect"
  /\ IF isScanning
       THEN \E ctxOk \in BOOLEAN, enough \in BOOLEAN, code \in DecodeResults :
              /\ ScanStep(scanQRCode(isScanning, status, ctxOk, enough, code),
                          EffectCleanup(rafPending))
              /\ frameReady' = IF ctxOk /\ enough THEN "yes" ELSE "no"
       ELSE /\ rafPending' = EffectCleanup(rafPending)
            /\ toasts' = <<>>
            /\ decoded' = <<>>
            /\ closureStatus' = "none"
            /\ frameReady' = "none"
            /\ consoleLog' = <<>>
            /\ alerts' = <<>>
            /\ UNCHANGED <<mounted, videoRef, acq, track, srcObject, status,
                           statusMessage, result, isScanning,
                           animationFrameRef, nextFrameId>>
            /\ UNCHANGED history

\* Variant: a successful submit clears the result.
HandleSubmit_clears ==
  \E viaButton \in BOOLEAN :
    /\ mounted
    /\ viaButton => result # ""
    /\ lastOp' = IF viaButton THEN "click" ELSE "submit"
    /\ IF result # ""
         THEN /\ consoleLog' = <<result>>
              /\ toasts' = <<SubmittedToast(result)>>
              /\ alerts' = <<result>>
         ELSE /\ consoleLog' = <<>>
              /\ toasts' = <<NoResultToast>>
              /\ alerts' = <<>>
    /\ decoded' = <<>>
    /\ closureStatus' = "none"
    /\ frameReady' = "none"
    /\ result' = ""
    /\ UNCHANGED <<mounted, videoRef, acq, track, srcObject, status,
                   statusMessage, isScanning, animationFrameRef, rafPending,
                   nextFrameId, depIsScanning, depStatus>>
    /\ UNCHANGED history

\* Variant: the empty branch still writes to the console.
HandleSubmit_alwaysLogs ==
  \E viaButton \in BOOLEAN :
    /\ mounted
    /\ viaButton => result # ""
    /\ lastOp' = IF viaButton THEN "click" ELSE "submit"
    /\ IF result # ""
         THEN /\ consoleLog' = <<result>>
              /\ toasts' = <<SubmittedToast(result)>>
              /\ alerts' = <<result>>
         ELSE /\ consoleLog' = <<result>>
              /\ toasts' = <<NoResultToast>>
              /\ alerts' = <<>>
    /\ decoded' = <<>>
    /\ closureStatus' = "none"
    /\ frameReady' = "none"
    /\ UNCHANGED state
    /\ UNCHANGED history

\* Variant: the button has no disabled attribute.
HandleSubmit_alwaysEnabled ==
  \E viaButton \in BOOLEAN :
    /\ mounted
    /\ lastOp' = IF viaButton THEN "click" ELSE "submit"
    /\ IF result # ""
         THEN /\ consoleLog' = <<result>>
              /\ toasts' = <<SubmittedToast(result)>>
              /\ alerts' = <<result>>
         ELSE /\ consoleLog' = <<>>
              /\ toasts' = <<NoResultToast>>
              /\ alerts' = <<>>
    /\ decoded' = <<>>
    /\ closureStatus' = "none"
    /\ frameReady' = "none"
    /\ UNCHANGED state
    /\ UNCHANGED history

\* handleSubmit.  viaButton: the call comes from the rendered button, which
\* is disabled while result is empty.
HandleSubmit ==
  \E viaButton \in BOOLEAN :
    /\ mounted
    /\ viaButton => result # ""
    /\ lastOp' = IF viaButton THEN "click" ELSE "submit"
    /\ IF result # ""
         THEN /\ consoleLog' = <<result>>
              /\ toasts' = <<SubmittedToast(result)>>
              /\ alerts' = <<result>>
         ELSE /\ consoleLog' = <<>>
              /\ toasts' = <<NoResultToast>>
              /\ alerts' = <<>>
    /\ decoded' = <<>>
    /\ closureStatus' = "none"
    /\ frameReady' = "none"
    /\ UNCHANGED state
    /\ UNCHANGED history

\* Variant: neither cleanup cancels the frame request.
Unmount_noCancel ==
  \E refAtCleanup \in BOOLEAN :
    /\ mounted
    /\ mounted' = FALSE
    /\ videoRef' = FALSE
    /\ rafPending' = rafPending
    /\ track' = UnmountStopTracks(refAtCleanup)
    /\ lastOp' = "unmount"
    /\ toasts' = <<>>
    /\ decoded' = <<>>
    /\ consoleLog' = <<>>
    /\ alerts' = <<>>
    /\ closureStatus' = "none"
    /\ frameReady' = "none"
    /\ UNCHANGED <<acq, srcObject, status, statusMessage, result, isScanning,
                   animationFrameRef, nextFrameId, depIsScanning, depStatus>>
    /\ UNCHANGED history

\* The component unmounts: refs are detached and the cleanups of both
\* effects run.  Whether videoRef.current is still the element when the
\* mount effect's cleanup runs depends on the React version (detached
\* before passive cleanups since React 17, after them before).
Unmount ==
  \E refAtCleanup \in BOOLEAN :
    /\ mounted
    /\ mounted' = FALSE
    /\ videoRef' = FALSE
    /\ rafPending' = EffectCleanup(UnmountCancel(rafPending))
    /\ track' = UnmountStopTracks(refAtCleanup)
    /\ lastOp' = "unmount"
    /\ toasts' = <<>>
    /\ decoded' = <<>>
    /\ consoleLog' = <<>>
    /\ alerts' = <<>>
    /\ closureStatus' = "none"
    /\ frameReady' = "none"
    /\ UNCHANGED <<acq, srcObject, status, statusMessage, result, isScanning,
                   animationFrameRef, nextFrameId, depIsScanning, depStatus>>
    /\ UNCHANGED history

Next ==
  \/ StartCameraResolve
  \/ StartCameraReject
  \/ ScanEffect
  \/ FrameCallback
  \/ HandleSubmit
  \/ Unmount

Spec == Init /\ [][Next]_vars

\* The platform runs an outstanding frame callback (requestAnimationFrame)
\* and React flushes a pending effect; nothing is assumed about the camera
\* prompt, the user or the unmount.
LiveSpec ==
  /\ Init /\ [][Next]_vars
  /\ WF_vars(ScanEffect)
  /\ WF_vars(FrameCallback)

TypeOK ==
  /\ mounted \in BOOLEAN /\ videoRef \in BOOLEAN
  /\ acq \in {"pending", "resolved", "rejected"}
  /\ track \in {"none", "live", "stopped"}
  /\ srcObject \in BOOLEAN
  /\ status \in ScannerStatus
  /\ result \in Payloads
  /\ isScanning \in BOOLEAN
  /\ animationFrameRef \in 0..MaxFrames
  /\ nextFrameId \in 1..(MaxFrames + 1)
  /\ \A r \in rafPending : r.id \in 1..MaxFrames

\* ------------------------------------------------------------- properties
\* A decode of this step returned a non-null result.
Hit(d) == Len(d) = 1 /\ d[1].found

\* C1 (as stated): once status is "detected", no step changes it.
C1_DetectedAbsorbing ==
  [][status = "detected" => status' = "detected"]_vars

\* C1 (amended): status leaves "detected" only to "scanning", and exactly in
\* the steps where a scanQRCode closure that captured a status other than
\* "scanning" decodes a miss; every other step (a hit, a miss decoded by a
\* closure that captured "scanning", a skipped tick, Submit, unmount) keeps
\* it "detected".
C1_DetectedLeftOnlyByMiss ==
  [][status = "detected" =>
       /\ status' \in {"detected", "scanning"}
       /\ (status' = "scanning") <=>
            (decoded' = <<NoCode>> /\ closureStatus' # "scanning")
       /\ status' = "scanning" => statusMessage' = "Scanning for QR code..."
    ]_vars

\* A miss has taken status back from "detected" to "scanning".
C1_Witness ==
  /\ everDetected
  /\ status = "scanning"
  /\ decoded = <<NoCode>>
  /\ closureStatus = "detected"

\* C2: when acquisition fails in a mounted session status becomes
\* "no-camera"; from then on status stays "no-camera", isScanning stays
\* false, no step decodes a frame or leaves a frame request outstanding, and
\* the acquisition stays failed (no stream, never pending again).
C2_NoCameraIsTerminal ==
  [][/\ (lastOp' = "reject" /\ mounted /\ acq = "pending") =>
          (status' = "no-camera" /\ ~isScanning')
     /\ status = "no-camera" =>
          /\ status' = "no-camera"
          /\ ~isScanning'
          /\ decoded' = <<>>
          /\ rafPending' = {}
          /\ acq = "rejected" /\ acq' = "rejected"
          /\ track' = "none"
    ]_vars

\* A later step of a session whose acquisition failed.
C2_Witness ==
  /\ status = "no-camera"
  /\ acq = "rejected"
  /\ lastOp \in {"submit", "unmount"}

\* C3: after a successful acquisition, as long as no decode has returned a
\* result, status is "scanning", result is empty, status has never been
\* "detected" and no step has raised the success notification.
C3_MissesKeepScanning ==
  (isScanning /\ ~everHit) =>
     /\ status = "scanning"
     /\ result = ""
     /\ ~everDetected
     /\ \A i \in 1..Len(toasts) : toasts[i] # FoundToast

\* Several ticks have run (one skipped or missed per request handed out) and
\* the last one decoded a miss.
C3_Witness ==
  /\ isScanning
  /\ ~everHit
  /\ decoded = <<NoCode>>
  /\ nextFrameId >= 4

\* C4 (as stated): the first tick whose decode returns a non-empty payload
\* moves status from "scanning" to "detected", stores that payload and
\* raises one success notification; status was never "detected" before.
C4_FirstNonEmptyDetects ==
  [][(Hit(decoded') /\ decoded'[1].data # "" /\ ~everNonEmpty) =>
       /\ status = "scanning" /\ ~everDetected
       /\ status' = "detected"
       /\ result' = decoded'[1].data
       /\ toasts' = <<FoundToast>>
    ]_vars

\* C4 (amended): the first tick whose decode returns a non-null result,
\* whatever its payload, moves status from "scanning" to "detected", stores
\* that payload and raises one success notification; status was never
\* "detected" before.
C4_FirstHitDetects ==
  [][(Hit(decoded') /\ ~everHit) =>
       /\ status = "scanning" /\ ~everDetected
       /\ status' = "detected"
       /\ statusMessage' = "QR code detected and decoded!"
       /\ result' = decoded'[1].data
       /\ toasts' = <<FoundToast>>
    ]_vars

\* The second tick of the session (the first came from the scan effect) is
\* the first to decode a result, a non-empty one.
C4_Witness ==
  /\ Hit(decoded)
  /\ decoded[1].data # ""
  /\ nextFrameId = 3
  /\ lastOp = "frame"
  /\ status = "detected"
  /\ depStatus = "scanning"

\* C5 (as stated): once a decode has succeeded, no step changes result.
C5_WrittenOnce ==
  [][everHit => result' = result]_vars

\* C5 (amended): result is written by every successful decode and by nothing
\* else: a step whose decode returns a result leaves result equal to that
\* payload (the last successful decode wins), every other step leaves result
\* unchanged.
C5_LastDecodeWins ==
  [][IF Hit(decoded')
       THEN result' = decoded'[1].data
       ELSE result' = result
    ]_vars

\* A successful decode made after an earlier detection has stored its payload.
C5_Witness ==
  /\ Hit(decoded)
  /\ depStatus = "detected"
  /\ result = "B"
  /\ closureStatus = "detected"

\* C6: once the component is unmounted, no track of a stream obtained for
\* the session is live, whenever the stream was obtained.
C6_NoLiveTrackAfterUnmount ==
  ~mounted => track # "live"

\* C7: from the unmount on, no frame request is outstanding, no step runs
\* scanQRCode or decodes a frame, status and result do not change, no
\* success notification is raised and no frame request is handed out.
C7_NoTickAfterUnmount ==
  [][~mounted' =>
       /\ rafPending' = {}
       /\ lastOp' \notin {"frame", "effect"}
       /\ decoded' = <<>>
       /\ closureStatus' = "none"
       /\ status' = status /\ statusMessage' = statusMessage
       /\ result' = result
       /\ \A i \in 1..Len(toasts') : toasts'[i] # FoundToast
       /\ nextFrameId' = nextFrameId /\ animationFrameRef' = animationFrameRef
    ]_vars

\* Unmounted after a detection whose re-render had not yet re-run the scan
\* effect, with a frame request handed out before.
C7_Witness ==
  /\ ~mounted
  /\ animationFrameRef # 0
  /\ status = "detected"
  /\ depStatus = "scanning"

\* C8: at most one frame request is outstanding, and it is the one whose id
\* is in animationFrameRef.
C8_OneOutstandingRequest ==
  /\ Cardinality(rafPending) <= 1
  /\ \A r \in rafPending : r.id = animationFrameRef

\* The scan effect has re-run after a detection and its direct call has
\* handed out the outstanding request.
C8_Witness ==
  /\ everDetected
  /\ lastOp = "effect"
  /\ Cardinality(rafPending) = 1
  /\ animationFrameRef >= 3

\* C9 (as stated): after a detection no step decodes a frame or hands out a
\* frame request.
C9_LoopStopsOnDetect ==
  [][everDetected =>
       (decoded' = <<>> /\ nextFrameId' = nextFrameId)]_vars

\* C9 (amended): a detection does not stop the loop: the tick that moves
\* status to "detected" hands out a new frame request, and after a
\* detection exactly one frame request is outstanding for as long as the
\* component is mounted.
C9_LoopContinuesAfterDetect ==
  [][/\ (status # "detected" /\ status' = "detected") =>
          /\ animationFrameRef' = nextFrameId
          /\ nextFrameId' = nextFrameId + 1
          /\ \E r \in rafPending' : r.id = nextFrameId
     /\ (mounted' /\ everDetected') => Cardinality(rafPending') = 1
    ]_vars

\* A frame callback created after the detection has decoded another frame.
C9_Witness ==
  /\ mounted
  /\ everDetected
  /\ lastOp = "frame"
  /\ closureStatus = "detected"
  /\ Len(decoded) = 1

\* C10: handleSubmit leaves status, statusMessage, result, isScanning, the
\* stream and its attachment, and the frame request unchanged.
C10_SubmitChangesNoState ==
  [][lastOp' \in {"submit", "click"} =>
       /\ status' = status /\ statusMessage' = statusMessage
       /\ result' = result
       /\ isScanning' = isScanning
       /\ srcObject' = srcObject /\ track' = track
       /\ rafPending' = rafPending
       /\ animationFrameRef' = animationFrameRef
    ]_vars

\* Submit of a decoded result while a frame request is outstanding.
C10_Witness ==
  /\ lastOp = "click"
  /\ result # ""
  /\ alerts = <<result>>
  /\ rafPending # {}

\* C11: what handleSubmit emits depends on result alone: with an empty
\* result only the "No Result" warning, no log entry and no alert; with a
\* non-empty result X one log entry X, one alert X and one "Result
\* Submitted" notification carrying X, and no warning.
C11_SubmitOutputs ==
  [][lastOp' \in {"submit", "click"} =>
       IF result = ""
         THEN /\ toasts' = <<NoResultToast>>
              /\ consoleLog' = <<>>
              /\ alerts' = <<>>
         ELSE /\ toasts' = <<SubmittedToast(result)>>
              /\ consoleLog' = <<result>>
              /\ alerts' = <<result>>
    ]_vars

\* Submit of the empty result before any decode succeeded: only the warning.
C11_Witness ==
  /\ lastOp = "submit"
  /\ isScanning
  /\ ~everHit
  /\ toasts = <<NoResultToast>>
  /\ consoleLog = <<>>

\* C12: while isScanning is false no step calls the decoder, runs the scan
\* body, changes result, or hands out a frame request, no frame request is
\* outstanding, and the scan effect and frame callbacks leave status alone.
C12_NoScanWithoutFlag ==
  [][~isScanning' =>
       /\ decoded' = <<>>
       /\ frameReady' = "none" /\ closureStatus' = "none"
       /\ result' = result
       /\ rafPending' = {}
       /\ nextFrameId' = nextFrameId /\ animationFrameRef' = animationFrameRef
       /\ lastOp' \in {"frame", "effect"} =>
            (status' = status /\ statusMessage' = statusMessage)
    ]_vars

\* The scan effect has re-run with isScanning false (status changed to
\* "no-camera") and did nothing.
C12_Witness ==
  /\ ~isScanning
  /\ lastOp = "effect"
  /\ status = "no-camera"
  /\ depStatus = "no-camera"

\* C13: status is never "error".
C13_ErrorUnreachable ==
  status \in {"initializing", "scanning", "detected", "no-camera"}

\* A session that went through acquisition, a detection, a miss that took
\* status back to "scanning", a Submit and the unmount.
C13_Witness ==
  /\ ~mounted
  /\ everDetected
  /\ status = "scanning"
  /\ result # ""

\* C14: result is the payload of the most recent decode that returned a
\* result (empty if none has); every decode that returns a result raises
\* the success notification, also when one was raised before.
C14_ResultIsLatestDecode ==
  [][/\ result' = lastData'
     /\ Hit(decoded') => toasts' = <<FoundToast>>
     /\ ~everHit' => result' = ""
    ]_vars

\* After a detection of "A" and then of "B", a miss has left result at "B".
C14_Witness ==
  /\ decoded = <<NoCode>>
  /\ everDetected
  /\ result = "B"
  /\ lastData = "B"
  /\ nextFrameId >= 4

\* C15: every scanQRCode call that passes the isScanning/ref guard hands out
\* exactly one new frame request, which becomes the only outstanding one and
\* carries the same closure; once a tick has run, a frame request is
\* outstanding whenever the component is mounted and isScanning is true.
C15_TickReschedules ==
  [][/\ (closureStatus' # "none" /\ videoRef /\ isScanning) =>
          /\ nextFrameId' = nextFrameId + 1
          /\ animationFrameRef' = nextFrameId
          /\ rafPending' = {[id |-> nextFrameId, isScanning |-> TRUE,
                             status |-> closureStatus']}
     /\ (mounted' /\ isScanning' /\ nextFrameId' > 1) => rafPending' # {}
    ]_vars

\* A tick skipped for lack of video data, after a detection, has left a
\* frame request behind.
C15_Witness ==
  /\ mounted
  /\ frameReady = "no"
  /\ status = "detected"
  /\ lastOp = "frame"
  /\ Cardinality(rafPending) = 1

\* C16: a scanQRCode call that finds no 2D context or not enough video data
\* does not call the decoder, leaves status, statusMessage, result and
\* isScanning unchanged, raises no notification, and hands out the next
\* frame request.
C16_SkippedTickOnlyReschedules ==
  [][(frameReady' = "no" /\ closureStatus' # "none") =>
       /\ decoded' = <<>>
       /\ status' = status /\ statusMessage' = statusMessage
       /\ result' = result
       /\ isScanning' = isScanning
       /\ toasts' = <<>> /\ consoleLog' = <<>> /\ alerts' = <<>>
       /\ nextFrameId' = nextFrameId + 1
       /\ \E r \in rafPending' : r.id = nextFrameId
    ]_vars

\* The first call, made by the scan effect right after the camera started,
\* found the video not ready.
C16_Witness ==
  /\ frameReady = "no"
  /\ lastOp = "effect"
  /\ status = "scanning"
  /\ nextFrameId = 2
  /\ decoded = <<>>

\* C17: status "scanning" or "detected" implies isScanning and an attached
\* stream; status "no-camera" implies isScanning false and no stream
\* attached; isScanning never goes from true to false.
C17_StatusMatchesGate ==
  [][/\ status' \in {"scanning", "detected"} => (isScanning' /\ srcObject')
     /\ status' = "no-camera" => (~isScanning' /\ ~srcObject')
     /\ isScanning => isScanning'
    ]_vars

\* Detected, then unmounted with the stream stopped by the cleanup.
C17_Witness ==
  /\ status = "detected"
  /\ isScanning
  /\ srcObject
  /\ track = "stopped"

\* C18: a decode that returns a result with empty data still sets status to
\* "detected" and raises the success notification, and result is empty
\* afterwards; in such a state the button is disabled and a handleSubmit
\* call reports "No Result".
C18_EmptyPayloadDetects ==
  [][/\ (Hit(decoded') /\ decoded'[1].data = "") =>
          /\ status' = "detected"
          /\ statusMessage' = "QR code detected and decoded!"
          /\ toasts' = <<FoundToast>>
          /\ result' = ""
     /\ (status = "detected" /\ result = "") =>
          /\ lastOp' # "click"
          /\ lastOp' = "submit" => toasts' = <<NoResultToast>>
    ]_vars

\* Status "detected" with an empty result, and a Submit that reported
\* "No Result".
C18_Witness ==
  /\ status = "detected"
  /\ result = ""
  /\ everHit
  /\ lastOp = "submit"
  /\ toasts = <<NoResultToast>>

\* C19: a click on the button runs handleSubmit only with a non-empty
\* result, so never its "No Result" branch; result is empty as long as no
\* decode has succeeded, and goes from non-empty back to empty only by a
\* decode that returns empty data.
C19_ButtonNeverWarns ==
  [][/\ lastOp' = "click" =>
          /\ result # ""
          /\ everHit
          /\ \A i \in 1..Len(toasts') : toasts'[i] # NoResultToast
     /\ ~everHit' => result' = ""
     /\ (result # "" /\ result' = "") =>
          (Hit(decoded') /\ decoded'[1].data = "")
    ]_vars

\* A click on the enabled button after "A" was decoded and a miss took
\* status back to "scanning".
C19_Witness ==
  /\ lastOp = "click"
  /\ result = "A"
  /\ toasts = <<SubmittedToast("A")>>
  /\ status = "scanning"

\* C20: in a session that stays mounted and whose acquisition succeeds, if
\* for some k the k-th scanQRCode call that hands out a frame request finds
\* the video ready and the decoder returns a result, then eventually status
\* is "detected" with result equal to the payload just decoded (the frame
\* callbacks and effect re-runs before it do happen); and in a session that
\* stays mounted and whose acquisition settles either way, status
\* eventually is no longer "initializing".
C20_DetectionIsReached ==
  /\ \A k \in 1..MaxFrames :
       ( /\ []mounted
         /\ <>(acq = "resolved")
         /\ [](nextFrameId = k + 1 /\ closureStatus # "none" =>
                 frameReady = "yes" /\ Hit(decoded)) )
       => <>( /\ status = "detected"
              /\ Hit(decoded)
              /\ result = decoded[1].data )
  /\ ([]mounted /\ <>(acq # "pending")) => <>(status # "initializing")

\* The last frame callback the model allows, after ticks that were skipped
\* or missed, found the video ready and detected a code.
C20_Witness ==
  /\ mounted
  /\ lastOp = "frame"
  /\ frameReady = "yes"
  /\ Hit(decoded)
  /\ status = "detected"
  /\ result = decoded[1].data
  /\ result # ""
  /\ depStatus = "scanning"
  /\ nextFrameId = MaxFrames + 1

====
